---- MODULE Spec2Model ----
(***************************************************************************)
(* A model of hw_OOP.py: the patient classes and their registry, the       *)
(* factory, the dict codec, the ordering of patients, the services of an   *)
(* appointment, the diagnosis-change chain and its permission gate, the   *)
(* clinic's list of patients.                                              *)
(*                                                                         *)
(* Python values are tagged: None, Str(<code points>), PyInt(n).  A str is *)
(* the sequence of its code points, so that lower(), len() and `in` are    *)
(* computed as Python computes them.  A dict is a function from its keys.  *)
(* A call returns Return(v) or raises Raise(exc, msg).                     *)
(***************************************************************************)
EXTENDS Integers, Sequences, FiniteSets, TLC

VARIABLES
    registry,   \* PatientMeta._registry: tag (code points) -> class
    trail,      \* codec: the input and the values to_dict/from_dict made of it
    made,       \* factory: the last create_patient call and its result
    patient,    \* setters: the patient object under edit
    edit,       \* setters: the last setter call
    pair,       \* ordering: the two patients compared
    verdict,    \* ordering: the results of <, > and == on the pair
    services,   \* appointment: Appointment.__services (a list of Service objects)
    billing,    \* appointment: the last add_service/remove_service call
    successor,  \* chain: each handler's _successor
    diagnosis,  \* chain: the appointment's diagnosis
    request,    \* chain: the last change_diagnosis/handle_request call
    patients,   \* clinic: Clinic.patients (a list of objects)
    directory   \* clinic: the last add_patient/remove_patient call

vars == <<registry, trail, made, patient, edit, pair, verdict, services,
          billing, successor, diagnosis, request, patients, directory>>

----------------------------------------------------------------------------
(* Python values *)

None == [t |-> "None"]
Str(cps) == [t |-> "str", v |-> cps]
PyInt(n) == [t |-> "int", v |-> n]

IsStr(x) == x.t = "str"
IsInt(x) == x.t = "int"

Return(v) == [ok |-> TRUE, val |-> v]
Raise(e, m) == [ok |-> FALSE, exc |-> e, msg |-> m]

\* bool(x) of a value: None, "" and 0 are false
Truthy(x) ==
    CASE x.t = "None" -> FALSE
      [] x.t = "str" -> x.v # <<>>
      [] x.t = "int" -> x.v # 0
      [] OTHER -> TRUE

\* str.lower() as the interpreter computes it (Python 3.11, Unicode 14.0.0).
\* A character is its code point.  The characters with a one-character
\* lower case of their own are listed in runs <<first, last, step, offset>>:
\* every step-th character from first to last lowers to itself + offset.
LowerRuns ==
    {<<65, 90, 1, 32>>, <<192, 214, 1, 32>>, <<216, 222, 1, 32>>, <<256,
     302, 2, 1>>, <<306, 310, 2, 1>>, <<313, 327, 2, 1>>, <<330, 374, 2,
     1>>, <<376, 376, 1, -121>>, <<377, 381, 2, 1>>, <<385, 385, 1,
     210>>, <<386, 388, 2, 1>>, <<390, 390, 1, 206>>, <<391, 391, 1,
     1>>, <<393, 394, 1, 205>>, <<395, 395, 1, 1>>, <<398, 398, 1, 79>>,
     <<399, 399, 1, 202>>, <<400, 400, 1, 203>>, <<401, 401, 1, 1>>,
     <<403, 403, 1, 205>>, <<404, 404, 1, 207>>, <<406, 406, 1, 211>>,
     <<407, 407, 1, 209>>, <<408, 408, 1, 1>>, <<412, 412, 1, 211>>,
     <<413, 413, 1, 213>>, <<415, 415, 1, 214>>, <<416, 420, 2, 1>>,
     <<422, 422, 1, 218>>, <<423, 423, 1, 1>>, <<425, 425, 1, 218>>,
     <<428, 428, 1, 1>>, <<430, 430, 1, 218>>, <<431, 431, 1, 1>>,
     <<433, 434, 1, 217>>, <<435, 437, 2, 1>>, <<439, 439, 1, 219>>,
     <<440, 440, 1, 1>>, <<444, 444, 1, 1>>, <<452, 452, 1, 2>>, <<453,
     453, 1, 1>>, <<455, 455, 1, 2>>, <<456, 456, 1, 1>>, <<458, 458, 1,
     2>>, <<459, 475, 2, 1>>, <<478, 494, 2, 1>>, <<497, 497, 1, 2>>,
     <<498, 500, 2, 1>>, <<502, 502, 1, -97>>, <<503, 503, 1, -56>>,
     <<504, 542, 2, 1>>, <<544, 544, 1, -130>>, <<546, 562, 2, 1>>,
     <<570, 570, 1, 10795>>, <<571, 571, 1, 1>>, <<573, 573, 1, -163>>,
     <<574, 574, 1, 10792>>, <<577, 577, 1, 1>>, <<579, 579, 1, -195>>,
     <<580, 580, 1, 69>>, <<581, 581, 1, 71>>, <<582, 590, 2, 1>>,
     <<880, 882, 2, 1>>, <<886, 886, 1, 1>>, <<895, 895, 1, 116>>,
     <<902, 902, 1, 38>>, <<904, 906, 1, 37>>, <<908, 908, 1, 64>>,
     <<910, 911, 1, 63>>, <<913, 929, 1, 32>>, <<931, 939, 1, 32>>,
     <<975, 975, 1, 8>>, <<984, 1006, 2, 1>>, <<1012, 1012, 1, -60>>,
     <<1015, 1015, 1, 1>>, <<1017, 1017, 1, -7>>, <<1018, 1018, 1, 1>>,
     <<1021, 1023, 1, -130>>, <<1024, 1039, 1, 80>>, <<1040, 1071, 1,
     32>>, <<1120, 1152, 2, 1>>, <<1162, 1214, 2, 1>>, <<1216, 1216, 1,
     15>>, <<1217, 1229, 2, 1>>, <<1232, 1326, 2, 1>>, <<1329, 1366, 1,
     48>>, <<4256, 4293, 1, 7264>>, <<4295, 4295, 1, 7264>>, <<4301,
     4301, 1, 7264>>, <<5024, 5103, 1, 38864>>, <<5104, 5109, 1, 8>>,
     <<7312, 7354, 1, -3008>>, <<7357, 7359, 1, -3008>>, <<7680, 7828,
     2, 1>>, <<7838, 7838, 1, -7615>>, <<7840, 7934, 2, 1>>, <<7944,
     7951, 1, -8>>, <<7960, 7965, 1, -8>>, <<7976, 7983, 1, -8>>,
     <<7992, 7999, 1, -8>>, <<8008, 8013, 1, -8>>, <<8025, 8031, 2,
     -8>>, <<8040, 8047, 1, -8>>, <<8072, 8079, 1, -8>>, <<8088, 8095,
     1, -8>>, <<8104, 8111, 1, -8>>, <<8120, 8121, 1, -8>>, <<8122,
     8123, 1, -74>>, <<8124, 8124, 1, -9>>, <<8136, 8139, 1, -86>>,
     <<8140, 8140, 1, -9>>, <<8152, 8153, 1, -8>>, <<8154, 8155, 1,
     -100>>, <<8168, 8169, 1, -8>>, <<8170, 8171, 1, -112>>, <<8172,
     8172, 1, -7>>, <<8184, 8185, 1, -128>>, <<8186, 8187, 1, -126>>,
     <<8188, 8188, 1, -9>>, <<8486, 8486, 1, -7517>>, <<8490, 8490, 1,
     -8383>>, <<8491, 8491, 1, -8262>>, <<8498, 8498, 1, 28>>, <<8544,
     8559, 1, 16>>, <<8579, 8579, 1, 1>>, <<9398, 9423, 1, 26>>,
     <<11264, 11311, 1, 48>>, <<11360, 11360, 1, 1>>, <<11362, 11362, 1,
     -10743>>, <<11363, 11363, 1, -3814>>, <<11364, 11364, 1, -10727>>,
     <<11367, 11371, 2, 1>>, <<11373, 11373, 1, -10780>>, <<11374,
     11374, 1, -10749>>, <<11375, 11375, 1, -10783>>, <<11376, 11376, 1,
     -10782>>, <<11378, 11378, 1, 1>>, <<11381, 11381, 1, 1>>, <<11390,
     11391, 1, -10815>>, <<11392, 11490, 2, 1>>, <<11499, 11501, 2, 1>>,
     <<11506, 11506, 1, 1>>, <<42560, 42604, 2, 1>>, <<42624, 42650, 2,
     1>>, <<42786, 42798, 2, 1>>, <<42802, 42862, 2, 1>>, <<42873,
     42875, 2, 1>>, <<42877, 42877, 1, -35332>>, <<42878, 42886, 2, 1>>,
     <<42891, 42891, 1, 1>>, <<42893, 42893, 1, -42280>>, <<42896,
     42898, 2, 1>>, <<42902, 42920, 2, 1>>, <<42922, 42922, 1, -42308>>,
     <<42923, 42923, 1, -42319>>, <<42924, 42924, 1, -42315>>, <<42925,
     42925, 1, -42305>>, <<42926, 42926, 1, -42308>>, <<42928, 42928, 1,
     -42258>>, <<42929, 42929, 1, -42282>>, <<42930, 42930, 1, -42261>>,
     <<42931, 42931, 1, 928>>, <<42932, 42946, 2, 1>>, <<42948, 42948,
     1, -48>>, <<42949, 42949, 1, -42307>>, <<42950, 42950, 1, -35384>>,
     <<42951, 42953, 2, 1>>, <<42960, 42960, 1, 1>>, <<42966, 42968, 2,
     1>>, <<42997, 42997, 1, 1>>, <<65313, 65338, 1, 32>>, <<66560,
     66599, 1, 40>>, <<66736, 66771, 1, 40>>, <<66928, 66964, 2, 39>>,
     <<66929, 66938, 1, 39>>, <<66941, 66954, 1, 39>>, <<66957, 66962,
     1, 39>>, <<66965, 66965, 1, 39>>, <<68736, 68786, 1, 64>>, <<71840,
     71871, 1, 32>>, <<93760, 93791, 1, 32>>, <<125184, 125217, 1, 34>>}

\* the case-ignorable characters, in ranges <<first, last>>
CaseIgnorable ==
    {<<39, 39>>, <<46, 46>>, <<58, 58>>, <<94, 94>>, <<96, 96>>, <<168,
     168>>, <<173, 173>>, <<175, 175>>, <<180, 180>>, <<183, 184>>,
     <<688, 879>>, <<884, 885>>, <<890, 890>>, <<900, 901>>, <<903,
     903>>, <<1155, 1161>>, <<1369, 1369>>, <<1375, 1375>>, <<1425,
     1469>>, <<1471, 1471>>, <<1473, 1474>>, <<1476, 1477>>, <<1479,
     1479>>, <<1524, 1524>>, <<1536, 1541>>, <<1552, 1562>>, <<1564,
     1564>>, <<1600, 1600>>, <<1611, 1631>>, <<1648, 1648>>, <<1750,
     1757>>, <<1759, 1768>>, <<1770, 1773>>, <<1807, 1807>>, <<1809,
     1809>>, <<1840, 1866>>, <<1958, 1968>>, <<2027, 2037>>, <<2042,
     2042>>, <<2045, 2045>>, <<2070, 2093>>, <<2137, 2139>>, <<2184,
     2184>>, <<2192, 2193>>, <<2200, 2207>>, <<2249, 2306>>, <<2362,
     2362>>, <<2364, 2364>>, <<2369, 2376>>, <<2381, 2381>>, <<2385,
     2391>>, <<2402, 2403>>, <<2417, 2417>>, <<2433, 2433>>, <<2492,
     2492>>, <<2497, 2500>>, <<2509, 2509>>, <<2530, 2531>>, <<2558,
     2558>>, <<2561, 2562>>, <<2620, 2620>>, <<2625, 2626>>, <<2631,
     2632>>, <<2635, 2637>>, <<2641, 2641>>, <<2672, 2673>>, <<2677,
     2677>>, <<2689, 2690>>, <<2748, 2748>>, <<2753, 2757>>, <<2759,
     2760>>, <<2765, 2765>>, <<2786, 2787>>, <<2810, 2815>>, <<2817,
     2817>>, <<2876, 2876>>, <<2879, 2879>>, <<2881, 2884>>, <<2893,
     2893>>, <<2901, 2902>>, <<2914, 2915>>, <<2946, 2946>>, <<3008,
     3008>>, <<3021, 3021>>, <<3072, 3072>>, <<3076, 3076>>, <<3132,
     3132>>, <<3134, 3136>>, <<3142, 3144>>, <<3146, 3149>>, <<3157,
     3158>>, <<3170, 3171>>, <<3201, 3201>>, <<3260, 3260>>, <<3263,
     3263>>, <<3270, 3270>>, <<3276, 3277>>, <<3298, 3299>>, <<3328,
     3329>>, <<3387, 3388>>, <<3393, 3396>>, <<3405, 3405>>, <<3426,
     3427>>, <<3457, 3457>>, <<3530, 3530>>, <<3538, 3540>>, <<3542,
     3542>>, <<3633, 3633>>, <<3636, 3642>>, <<3654, 3662>>, <<3761,
     3761>>, <<3764, 3772>>, <<3782, 3782>>, <<3784, 3789>>, <<3864,
     3865>>, <<3893, 3893>>, <<3895, 3895>>, <<3897, 3897>>, <<3953,
     3966>>, <<3968, 3972>>, <<3974, 3975>>, <<3981, 3991>>, <<3993,
     4028>>, <<4038, 4038>>, <<4141, 4144>>, <<4146, 4151>>, <<4153,
     4154>>, <<4157, 4158>>, <<4184, 4185>>, <<4190, 4192>>, <<4209,
     4212>>, <<4226, 4226>>, <<4229, 4230>>, <<4237, 4237>>, <<4253,
     4253>>, <<4348, 4348>>, <<4957, 4959>>, <<5906, 5908>>, <<5938,
     5939>>, <<5970, 5971>>, <<6002, 6003>>, <<6068, 6069>>, <<6071,
     6077>>, <<6086, 6086>>, <<6089, 6099>>, <<6103, 6103>>, <<6109,
     6109>>, <<6155, 6159>>, <<6211, 6211>>, <<6277, 6278>>, <<6313,
     6313>>, <<6432, 6434>>, <<6439, 6440>>, <<6450, 6450>>, <<6457,
     6459>>, <<6679, 6680>>, <<6683, 6683>>, <<6742, 6742>>, <<6744,
     6750>>, <<6752, 6752>>, <<6754, 6754>>, <<6757, 6764>>, <<6771,
     6780>>, <<6783, 6783>>, <<6823, 6823>>, <<6832, 6862>>, <<6912,
     6915>>, <<6964, 6964>>, <<6966, 6970>>, <<6972, 6972>>, <<6978,
     6978>>, <<7019, 7027>>, <<7040, 7041>>, <<7074, 7077>>, <<7080,
     7081>>, <<7083, 7085>>, <<7142, 7142>>, <<7144, 7145>>, <<7149,
     7149>>, <<7151, 7153>>, <<7212, 7219>>, <<7222, 7223>>, <<7288,
     7293>>, <<7376, 7378>>, <<7380, 7392>>, <<7394, 7400>>, <<7405,
     7405>>, <<7412, 7412>>, <<7416, 7417>>, <<7468, 7530>>, <<7544,
     7544>>, <<7579, 7679>>, <<8125, 8125>>, <<8127, 8129>>, <<8141,
     8143>>, <<8157, 8159>>, <<8173, 8175>>, <<8189, 8190>>, <<8203,
     8207>>, <<8216, 8217>>, <<8228, 8228>>, <<8231, 8231>>, <<8234,
     8238>>, <<8288, 8292>>, <<8294, 8303>>, <<8305, 8305>>, <<8319,
     8319>>, <<8336, 8348>>, <<8400, 8432>>, <<11388, 11389>>, <<11503,
     11505>>, <<11631, 11631>>, <<11647, 11647>>, <<11744, 11775>>,
     <<11823, 11823>>, <<12293, 12293>>, <<12330, 12333>>, <<12337,
     12341>>, <<12347, 12347>>, <<12441, 12446>>, <<12540, 12542>>,
     <<40981, 40981>>, <<42232, 42237>>, <<42508, 42508>>, <<42607,
     42610>>, <<42612, 42621>>, <<42623, 42623>>, <<42652, 42655>>,
     <<42736, 42737>>, <<42752, 42785>>, <<42864, 42864>>, <<42888,
     42890>>, <<42994, 42996>>, <<43000, 43001>>, <<43010, 43010>>,
     <<43014, 43014>>, <<43019, 43019>>, <<43045, 43046>>, <<43052,
     43052>>, <<43204, 43205>>, <<43232, 43249>>, <<43263, 43263>>,
     <<43302, 43309>>, <<43335, 43345>>, <<43392, 43394>>, <<43443,
     43443>>, <<43446, 43449>>, <<43452, 43453>>, <<43471, 43471>>,
     <<43493, 43494>>, <<43561, 43566>>, <<43569, 43570>>, <<43573,
     43574>>, <<43587, 43587>>, <<43596, 43596>>, <<43632, 43632>>,
     <<43644, 43644>>, <<43696, 43696>>, <<43698, 43700>>, <<43703,
     43704>>, <<43710, 43711>>, <<43713, 43713>>, <<43741, 43741>>,
     <<43756, 43757>>, <<43763, 43764>>, <<43766, 43766>>, <<43867,
     43871>>, <<43881, 43883>>, <<44005, 44005>>, <<44008, 44008>>,
     <<44013, 44013>>, <<64286, 64286>>, <<64434, 64450>>, <<65024,
     65039>>, <<65043, 65043>>, <<65056, 65071>>, <<65106, 65106>>,
     <<65109, 65109>>, <<65279, 65279>>, <<65287, 65287>>, <<65294,
     65294>>, <<65306, 65306>>, <<65342, 65342>>, <<65344, 65344>>,
     <<65392, 65392>>, <<65438, 65439>>, <<65507, 65507>>, <<65529,
     65531>>, <<66045, 66045>>, <<66272, 66272>>, <<66422, 66426>>,
     <<67456, 67461>>, <<67463, 67504>>, <<67506, 67514>>, <<68097,
     68099>>, <<68101, 68102>>, <<68108, 68111>>, <<68152, 68154>>,
     <<68159, 68159>>, <<68325, 68326>>, <<68900, 68903>>, <<69291,
     69292>>, <<69446, 69456>>, <<69506, 69509>>, <<69633, 69633>>,
     <<69688, 69702>>, <<69744, 69744>>, <<69747, 69748>>, <<69759,
     69761>>, <<69811, 69814>>, <<69817, 69818>>, <<69821, 69821>>,
     <<69826, 69826>>, <<69837, 69837>>, <<69888, 69890>>, <<69927,
     69931>>, <<69933, 69940>>, <<70003, 70003>>, <<70016, 70017>>,
     <<70070, 70078>>, <<70089, 70092>>, <<70095, 70095>>, <<70191,
     70193>>, <<70196, 70196>>, <<70198, 70199>>, <<70206, 70206>>,
     <<70367, 70367>>, <<70371, 70378>>, <<70400, 70401>>, <<70459,
     70460>>, <<70464, 70464>>, <<70502, 70508>>, <<70512, 70516>>,
     <<70712, 70719>>, <<70722, 70724>>, <<70726, 70726>>, <<70750,
     70750>>, <<70835, 70840>>, <<70842, 70842>>, <<70847, 70848>>,
     <<70850, 70851>>, <<71090, 71093>>, <<71100, 71101>>, <<71103,
     71104>>, <<71132, 71133>>, <<71219, 71226>>, <<71229, 71229>>,
     <<71231, 71232>>, <<71339, 71339>>, <<71341, 71341>>, <<71344,
     71349>>, <<71351, 71351>>, <<71453, 71455>>, <<71458, 71461>>,
     <<71463, 71467>>, <<71727, 71735>>, <<71737, 71738>>, <<71995,
     71996>>, <<71998, 71998>>, <<72003, 72003>>, <<72148, 72151>>,
     <<72154, 72155>>, <<72160, 72160>>, <<72193, 72202>>, <<72243,
     72248>>, <<72251, 72254>>, <<72263, 72263>>, <<72273, 72278>>,
     <<72281, 72283>>, <<72330, 72342>>, <<72344, 72345>>, <<72752,
     72758>>, <<72760, 72765>>, <<72767, 72767>>, <<72850, 72871>>,
     <<72874, 72880>>, <<72882, 72883>>, <<72885, 72886>>, <<73009,
     73014>>, <<73018, 73018>>, <<73020, 73021>>, <<73023, 73029>>,
     <<73031, 73031>>, <<73104, 73105>>, <<73109, 73109>>, <<73111,
     73111>>, <<73459, 73460>>, <<78896, 78904>>, <<92912, 92916>>,
     <<92976, 92982>>, <<92992, 92995>>, <<94031, 94031>>, <<94095,
     94111>>, <<94176, 94177>>, <<94179, 94180>>, <<110576, 110579>>,
     <<110581, 110587>>, <<110589, 110590>>, <<113821, 113822>>,
     <<113824, 113827>>, <<118528, 118573>>, <<118576, 118598>>,
     <<119143, 119145>>, <<119155, 119170>>, <<119173, 119179>>,
     <<119210, 119213>>, <<119362, 119364>>, <<121344, 121398>>,
     <<121403, 121452>>, <<121461, 121461>>, <<121476, 121476>>,
     <<121499, 121503>>, <<121505, 121519>>, <<122880, 122886>>,
     <<122888, 122904>>, <<122907, 122913>>, <<122915, 122916>>,
     <<122918, 122922>>, <<123184, 123197>>, <<123566, 123566>>,
     <<123628, 123631>>, <<125136, 125142>>, <<125252, 125259>>,
     <<127995, 127999>>, <<917505, 917505>>, <<917536, 917631>>,
     <<917760, 917999>>}

\* the cased characters that are not case-ignorable, in ranges
Cased ==
    {<<65, 90>>, <<97, 122>>, <<170, 170>>, <<181, 181>>, <<186, 186>>,
     <<192, 214>>, <<216, 246>>, <<248, 442>>, <<444, 447>>, <<452,
     659>>, <<661, 687>>, <<880, 883>>, <<886, 887>>, <<891, 893>>,
     <<895, 895>>, <<902, 902>>, <<904, 906>>, <<908, 908>>, <<910,
     929>>, <<931, 1013>>, <<1015, 1153>>, <<1162, 1327>>, <<1329,
     1366>>, <<1376, 1416>>, <<4256, 4293>>, <<4295, 4295>>, <<4301,
     4301>>, <<4304, 4346>>, <<4349, 4351>>, <<5024, 5109>>, <<5112,
     5117>>, <<7296, 7304>>, <<7312, 7354>>, <<7357, 7359>>, <<7424,
     7467>>, <<7531, 7543>>, <<7545, 7578>>, <<7680, 7957>>, <<7960,
     7965>>, <<7968, 8005>>, <<8008, 8013>>, <<8016, 8023>>, <<8025,
     8025>>, <<8027, 8027>>, <<8029, 8029>>, <<8031, 8061>>, <<8064,
     8116>>, <<8118, 8124>>, <<8126, 8126>>, <<8130, 8132>>, <<8134,
     8140>>, <<8144, 8147>>, <<8150, 8155>>, <<8160, 8172>>, <<8178,
     8180>>, <<8182, 8188>>, <<8450, 8450>>, <<8455, 8455>>, <<8458,
     8467>>, <<8469, 8469>>, <<8473, 8477>>, <<8484, 8484>>, <<8486,
     8486>>, <<8488, 8488>>, <<8490, 8493>>, <<8495, 8500>>, <<8505,
     8505>>, <<8508, 8511>>, <<8517, 8521>>, <<8526, 8526>>, <<8544,
     8575>>, <<8579, 8580>>, <<9398, 9449>>, <<11264, 11387>>, <<11390,
     11492>>, <<11499, 11502>>, <<11506, 11507>>, <<11520, 11557>>,
     <<11559, 11559>>, <<11565, 11565>>, <<42560, 42605>>, <<42624,
     42651>>, <<42786, 42863>>, <<42865, 42887>>, <<42891, 42894>>,
     <<42896, 42954>>, <<42960, 42961>>, <<42963, 42963>>, <<42965,
     42969>>, <<42997, 42998>>, <<43002, 43002>>, <<43824, 43866>>,
     <<43872, 43880>>, <<43888, 43967>>, <<64256, 64262>>, <<64275,
     64279>>, <<65313, 65338>>, <<65345, 65370>>, <<66560, 66639>>,
     <<66736, 66771>>, <<66776, 66811>>, <<66928, 66938>>, <<66940,
     66954>>, <<66956, 66962>>, <<66964, 66965>>, <<66967, 66977>>,
     <<66979, 66993>>, <<66995, 67001>>, <<67003, 67004>>, <<68736,
     68786>>, <<68800, 68850>>, <<71840, 71903>>, <<93760, 93823>>,
     <<119808, 119892>>, <<119894, 119964>>, <<119966, 119967>>,
     <<119970, 119970>>, <<119973, 119974>>, <<119977, 119980>>,
     <<119982, 119993>>, <<119995, 119995>>, <<119997, 120003>>,
     <<120005, 120069>>, <<120071, 120074>>, <<120077, 120084>>,
     <<120086, 120092>>, <<120094, 120121>>, <<120123, 120126>>,
     <<120128, 120132>>, <<120134, 120134>>, <<120138, 120144>>,
     <<120146, 120485>>, <<120488, 120512>>, <<120514, 120538>>,
     <<120540, 120570>>, <<120572, 120596>>, <<120598, 120628>>,
     <<120630, 120654>>, <<120656, 120686>>, <<120688, 120712>>,
     <<120714, 120744>>, <<120746, 120770>>, <<120772, 120779>>,
     <<122624, 122633>>, <<122635, 122654>>, <<125184, 125251>>,
     <<127280, 127305>>, <<127312, 127337>>, <<127344, 127369>>}

InRanges(c, ranges) == \E r \in ranges : r[1] <= c /\ c <= r[2]

\* chr(c).lower(), a str: U+0130 lowers to two characters
LowerChar(c) ==
    IF c = 304 THEN <<105, 775>>
    ELSE LET run == {r \in LowerRuns :
                        r[1] <= c /\ c <= r[2] /\ (c - r[1]) % r[3] = 0}
         IN  IF run = {} THEN <<c>>
             ELSE <<c + (CHOOSE r \in run : TRUE)[4]>>

\* s[i] is a capital sigma at the end of a word: the nearest character
\* before it that is not case-ignorable is cased, and the nearest one after
\* it, if any, is not
FinalSigma(s, i) ==
    LET before == {j \in 1..(i - 1) : ~InRanges(s[j], CaseIgnorable)}
        after == {j \in (i + 1)..Len(s) : ~InRanges(s[j], CaseIgnorable)}
    IN  /\ before # {}
        /\ InRanges(s[CHOOSE j \in before : \A k \in before : k <= j], Cased)
        /\ \/ after = {}
           \/ ~InRanges(s[CHOOSE j \in after : \A k \in after : j <= k], Cased)

RECURSIVE LowerFrom(_, _)
LowerFrom(s, i) ==
    IF i > Len(s) THEN <<>>
    ELSE (IF s[i] = 931
          THEN <<IF FinalSigma(s, i) THEN 962 ELSE 963>>
          ELSE LowerChar(s[i]))
         \o LowerFrom(s, i + 1)

\* str.lower()
Lower(s) == LowerFrom(s, 1)

\* chr.upper() on the Latin and Russian letters
UpperChar(c) ==
    IF c \in 97..122 THEN c - 32
    ELSE IF c \in 1072..1103 THEN c - 32
    ELSE IF c = 1105 THEN 1025
    ELSE c

\* `needle in hay` on two strs
Contains(hay, needle) ==
    \E i \in 0..(Len(hay) - Len(needle)) :
        \A j \in 1..Len(needle) : hay[i + j] = needle[j]

\* dict.get(key, default)
DictGet(d, k, default) == IF k \in DOMAIN d THEN d[k] ELSE default

Range(s) == {s[i] : i \in DOMAIN s}

----------------------------------------------------------------------------
(* The classes built with the metaclass PatientMeta, in definition order *)

cpPatient == <<80, 97, 116, 105, 101, 110, 116>>
cpAdultPatient == <<65, 100, 117, 108, 116, 80, 97, 116, 105, 101, 110, 116>>
cpChildPatient == <<67, 104, 105, 108, 100, 80, 97, 116, 105, 101, 110, 116>>
cpSeniorPatient == <<83, 101, 110, 105, 111, 114, 80, 97, 116, 105, 101, 110, 116>>
cpPatientWithNotifications ==
    <<80, 97, 116, 105, 101, 110, 116, 87, 105, 116, 104, 78, 111, 116, 105,
      102, 105, 99, 97, 116, 105, 111, 110, 115>>

\* a class object, by its __name__
Class(name) == [t |-> "class", name |-> name]

ClassDefs ==
    <<cpPatient, cpAdultPatient, cpChildPatient, cpSeniorPatient,
      cpPatientWithNotifications>>

\* the keyword each class's __init__ takes after the five common ones
CommonParams == <<"patient_id", "name", "age", "gender", "medical_history">>

InitParams(cls) ==
    CASE cls = Class(cpAdultPatient) -> Append(CommonParams, "occupation")
      [] cls = Class(cpChildPatient) -> Append(CommonParams, "guardian")
      [] cls = Class(cpSeniorPatient) -> Append(CommonParams, "chronic_conditions")
      [] OTHER -> CommonParams

\* PatientMeta.__new__: every class but Patient itself is registered under
\* its lowercased name
MetaNew(reg, name) ==
    IF name # cpPatient
    THEN [k \in DOMAIN reg \cup {Lower(name)} |->
             IF k = Lower(name) THEN Class(name) ELSE reg[k]]
    ELSE reg

RECURSIVE RegistryAfter(_)
RegistryAfter(n) ==
    IF n = 0 THEN [k \in {} |-> None]
    ELSE MetaNew(RegistryAfter(n - 1), ClassDefs[n])

\* the registry once the module is imported
StartupRegistry == RegistryAfter(Len(ClassDefs))

\* PatientMeta.get_patient_class: None.lower() raises AttributeError
GetPatientClassExact(reg, patient_type) ==
    IF ~IsStr(patient_type) THEN Raise("AttributeError", None)
    ELSE Return(DictGet(reg, patient_type.v, None))

get_patient_class(reg, patient_type) ==
    IF ~IsStr(patient_type) THEN Raise("AttributeError", None)
    ELSE Return(DictGet(reg, Lower(patient_type.v), None))

----------------------------------------------------------------------------
(* Construction *)

IndexOf(seq, x) == CHOOSE i \in DOMAIN seq : seq[i] = x

\* cls(*args, **kwargs): Python binds the positional arguments to the first
\* parameters and the keywords by name; an extra, doubled or missing
\* argument raises TypeError.  The new object holds its class and one
\* attribute per parameter.
Call(cls, args, kwargs) ==
    LET params == InitParams(cls)
        bad == \/ Len(args) > Len(params)
               \/ \E k \in DOMAIN kwargs :
                      \/ k \notin Range(params)
                      \/ IndexOf(params, k) <= Len(args)
               \/ \E i \in (Len(args) + 1)..Len(params) :
                      params[i] \notin DOMAIN kwargs
    IN  IF bad THEN Raise("TypeError", None)
        ELSE Return([k \in {"cls"} \cup Range(params) |->
                        IF k = "cls" THEN cls
                        ELSE IF IndexOf(params, k) <= Len(args)
                             THEN args[IndexOf(params, k)]
                             ELSE kwargs[k]])

NoKwargs == [k \in {} |-> None]

\* "Неизвестный тип пациента: "
cpUnknownType ==
    <<1053, 1077, 1080, 1079, 1074, 1077, 1089, 1090, 1085, 1099, 1081, 32,
      1090, 1080, 1087, 32, 1087, 1072, 1094, 1080, 1077, 1085, 1090, 1072,
      58, 32>>

\* "None": what an f-string makes of None
cpNone == <<78, 111, 110, 101>>

\* f"{x}" of a str or None
Format(x) == IF IsStr(x) THEN x.v ELSE cpNone

\* PatientFactory.create_patient
create_patient(reg, patient_type, args, kwargs) ==
    LET found == get_patient_class(reg, patient_type)
    IN  IF ~found.ok THEN found
        ELSE IF found.val # None THEN Call(found.val, args, kwargs)
        ELSE Raise("ValueError", Str(cpUnknownType \o Format(patient_type)))

----------------------------------------------------------------------------
(* The dict codec *)

\* the key of the field a class adds, if it adds one
ExtraKey(cls) ==
    CASE cls = Class(cpAdultPatient) -> {"occupation"}
      [] cls = Class(cpChildPatient) -> {"guardian"}
      [] cls = Class(cpSeniorPatient) -> {"chronic_conditions"}
      [] OTHER -> {}

\* Patient.to_dict that writes the history as it is
to_dict_raw(p) ==
    [k \in {"patient_id", "name", "age", "gender", "medical_history", "type"}
           \cup ExtraKey(p.cls) |->
        IF k = "type" THEN Str(Lower(p.cls.name)) ELSE p[k]]

\* Patient.to_dict that writes the class name as it is spelled
to_dict_class_name(p) ==
    [k \in {"patient_id", "name", "age", "gender", "medical_history", "type"}
           \cup ExtraKey(p.cls) |->
        CASE k = "type" -> Str(p.cls.name)
          [] k = "medical_history" ->
                 IF Truthy(p.medical_history) THEN p.medical_history
                 ELSE Str(<<>>)
          [] OTHER -> p[k]]

\* Patient.to_dict: a falsy history is written as ""
to_dict(p) ==
    [k \in {"patient_id", "name", "age", "gender", "medical_history", "type"}
           \cup ExtraKey(p.cls) |->
        CASE k = "type" -> Str(Lower(p.cls.name))
          [] k = "medical_history" ->
                 IF Truthy(p.medical_history) THEN p.medical_history
                 ELSE Str(<<>>)
          [] OTHER -> p[k]]

\* Patient.from_dict
from_dict(reg, data) ==
    LET found == get_patient_class(reg, DictGet(data, "type", None))
    IN  IF ~found.ok THEN found
        ELSE IF found.val = None
        THEN Raise("ValueError",
                   Str(cpUnknownType \o Format(DictGet(data, "type", None))))
        ELSE LET cls == found.val
                 kw == [k \in Range(CommonParams) \cup ExtraKey(cls) |->
                           CASE k \in ExtraKey(cls) -> DictGet(data, k, Str(<<>>))
                             [] k = "medical_history" -> DictGet(data, k, Str(<<>>))
                             [] OTHER -> DictGet(data, k, None)]
             IN  Call(cls, <<>>, kw)

----------------------------------------------------------------------------
(* Inputs *)

cpA1 == <<65, 49>>                 \* "A1"
cpB2 == <<66, 50>>                 \* "B2"
cpIvan == <<73, 118, 97, 110>>     \* "Ivan"
cpM == <<1084>>                    \* "м"
cpZh == <<1078>>                   \* "ж"
cpCold == <<99, 111, 108, 100>>    \* "cold"
cpFlu == <<102, 108, 117>>         \* "flu"
cpNurse == <<110, 117, 114, 115, 101>>   \* "nurse"
cpUnknown == <<117, 110, 107, 110, 111, 119, 110>>   \* "unknown"
cpInvalidtype == <<105, 110, 118, 97, 108, 105, 100, 116, 121, 112, 101>>

\* s with its first k characters in upper case and the rest in lower case
Casing(s, k) ==
    [i \in 1..Len(s) |->
        IF i <= k THEN UpperChar(s[i]) ELSE Head(LowerChar(s[i]))]

RegisteredNames == Range(ClassDefs) \ {cpPatient}

\* s with every second character in upper case
Alternate(s) ==
    [i \in 1..Len(s) |->
        IF i % 2 = 0 THEN UpperChar(s[i]) ELSE Head(LowerChar(s[i]))]

\* a name as written, in lower case, capitalized, in upper case, alternating
Casings(n) == {n, Casing(n, 0), Casing(n, 1), Casing(n, Len(n)), Alternate(n)}

KnownTags == UNION {Casings(n) : n \in RegisteredNames}

\* tags that name no registered class
UnknownTags ==
    {cpUnknown, cpInvalidtype, <<>>, cpPatient, Lower(cpPatient),
     Casing(cpUnknown, Len(cpUnknown))}

\* the ages a caller or a record may give: the constructor checks nothing
AgeValues == {None, PyInt(1), PyInt(35), PyInt(200)}
GenderValues == {None, Str(cpM)}
HistoryValues == {None, Str(<<>>), Str(cpCold)}
ExtraValues == {None, Str(<<>>), Str(cpNurse)}

PatientClasses == {Class(n) : n \in RegisteredNames}

\* the patients the constructors make of these values
PatientInputs ==
    {r.val : r \in {x \in
        {Call(c, <<Str(cpA1), Str(cpIvan), a, g, h>>,
              [k \in ExtraKey(c) |-> e]) :
            c \in PatientClasses, a \in AgeValues, g \in GenderValues,
            h \in HistoryValues, e \in ExtraValues} : x.ok}}

Absent == [t |-> "absent"]

\* the dict of the keys that are given a value
DictOf(f) == [k \in {x \in DOMAIN f : f[x] # Absent} |-> f[k]]

RecordTypes ==
    {Absent, None} \cup {Str(n) : n \in RegisteredNames}
    \cup {Str(Lower(n)) : n \in RegisteredNames}
    \cup {Str(cpUnknown), Str(cpPatient), Str(<<>>)}

\* records as a JSON document may hold them: keys may be missing, values null
RecordInputs ==
    {DictOf([type |-> ty, patient_id |-> Str(cpA1), name |-> Str(cpIvan),
             age |-> a, gender |-> Str(cpM), medical_history |-> h,
             occupation |-> o, guardian |-> g]) :
        ty \in RecordTypes, a \in {Absent, PyInt(35)},
        h \in {Absent, None, Str(<<>>), Str(cpCold), PyInt(0), PyInt(7)},
        o \in {Absent, Str(cpNurse)}, g \in {Absent, Str(cpNurse)}}

----------------------------------------------------------------------------
(* State *)

Idle == [op |-> "none"]

Obj(p) == [kind |-> "patient", val |-> p]
Rec(d) == [kind |-> "dict", val |-> d]
Exc(r) == [kind |-> "raised", val |-> r]

\* how many times the codec is applied to an input
MaxCodecSteps == 3

\* the rest of the program at rest while one part of it is exercised
RegistryBuilt == registry = StartupRegistry
CodecIdle == trail = <<>>
FactoryIdle == made = Idle
SetterIdle == patient = None /\ edit = Idle
OrderIdle == pair = <<>> /\ verdict = Idle
BillingIdle == services = <<>> /\ billing = Idle
ChainIdle == successor = <<>> /\ diagnosis = <<>> /\ request = Idle
ClinicIdle == patients = <<>> /\ directory = Idle

----------------------------------------------------------------------------
(* The codec applied to patients and to records *)

Last(s) == s[Len(s)]

\* a patient to serialize, or a record to load
InitCodec ==
    /\ RegistryBuilt
    /\ trail \in {<<Obj(p)>> : p \in PatientInputs}
                 \cup {<<Rec(d)>> : d \in RecordInputs}
    /\ FactoryIdle /\ SetterIdle /\ OrderIdle /\ BillingIdle /\ ChainIdle
    /\ ClinicIdle

\* p.to_dict()
Serialize ==
    /\ Len(trail) <= MaxCodecSteps
    /\ Last(trail).kind = "patient"
    /\ trail' = Append(trail, Rec(to_dict(Last(trail).val)))
    /\ UNCHANGED <<registry, made, patient, edit, pair, verdict, services,
                   billing, successor, diagnosis, request>>
    /\ UNCHANGED <<patients, directory>>

\* Patient.from_dict(data)
Deserialize ==
    /\ Len(trail) <= MaxCodecSteps
    /\ Last(trail).kind = "dict"
    /\ LET r == from_dict(registry, Last(trail).val)
       IN  trail' = Append(trail, IF r.ok THEN Obj(r.val) ELSE Exc(r))
    /\ UNCHANGED <<registry, made, patient, edit, pair, verdict, services,
                   billing, successor, diagnosis, request>>
    /\ UNCHANGED <<patients, directory>>

CodecNext == Serialize \/ Deserialize

SpecCodec == InitCodec /\ [][CodecNext]_vars

ThreeVariants ==
    {Class(cpAdultPatient), Class(cpChildPatient), Class(cpSeniorPatient)}

\* the trail is from_dict(to_dict(p)) of a patient p of the three variants
RoundTripped ==
    /\ Len(trail) >= 3
    /\ trail[1].kind = "patient"
    /\ trail[1].val.cls \in ThreeVariants

\* C4 as stated: from_dict(p.to_dict()) is a patient of p's variant with
\* every field, the variant's own included, equal to p's.
C4_RoundTripEveryPatient == RoundTripped => trail[3] = trail[1]

\* C4, amended: from_dict(p.to_dict()) is a patient of p's variant whose
\* patient_id, name, age, gender and variant field equal p's; its
\* medical_history equals p's too, unless p's is None, and then it is "".
C4_RoundTrip ==
    RoundTripped =>
        /\ trail[3].kind = "patient"
        /\ LET p == trail[1].val
               q == trail[3].val
           IN  /\ q.cls = p.cls
               /\ DOMAIN q = DOMAIN p
               /\ \A k \in DOMAIN p \ {"medical_history"} : q[k] = p[k]
               /\ q.medical_history =
                      IF p.medical_history = None THEN Str(<<>>)
                      ELSE p.medical_history

\* a senior patient with a history and chronic conditions came back equal
C4_Witness ==
    /\ RoundTripped
    /\ trail[1].val.cls = Class(cpSeniorPatient)
    /\ trail[1].val.medical_history = Str(cpCold)
    /\ trail[1].val.chronic_conditions = Str(cpNurse)
    /\ trail[3] = trail[1]

\* the trail is from_dict(r).to_dict() of a record r that from_dict accepts
Reserialized ==
    /\ Len(trail) >= 3
    /\ trail[1].kind = "dict"
    /\ trail[2].kind = "patient"

\* the layout to_dict writes: the six common keys and the variant's own key
\* and no other, a type in lower case, and a history to_dict writes as it
\* is: a str, the empty one included, or another value that is true (None,
\* 0 and every other false value are written as "")
Canonical(r) ==
    /\ "type" \in DOMAIN r
    /\ IsStr(r.type)
    /\ r.type.v = Lower(r.type.v)
    /\ r.type.v \in DOMAIN registry
    /\ DOMAIN r = {"patient_id", "name", "age", "gender", "medical_history",
                   "type"} \cup ExtraKey(registry[r.type.v])
    /\ \/ IsStr(r.medical_history)
       \/ Truthy(r.medical_history)

\* C5 as stated: from_dict(r).to_dict() == r for every record r that
\* from_dict accepts.
C5_StableEveryRecord == Reserialized => trail[3] = trail[1]

\* C5, amended: from_dict(r).to_dict() == r for every record r in the layout
\* to_dict writes (all keys and no other, a lower-case type, a history that
\* is a str or a true value), and so for every record to_dict has
\* produced: p.to_dict() is a fixed point of from_dict followed by to_dict.
C5_Stable ==
    /\ (Reserialized /\ Canonical(trail[1].val)) => trail[3] = trail[1]
    /\ (Len(trail) >= 4 /\ trail[1].kind = "patient") => trail[4] = trail[2]

\* a child's record in the written layout was loaded and written back
C5_Witness ==
    /\ Reserialized
    /\ Canonical(trail[1].val)
    /\ trail[1].val.type = Str(Lower(cpChildPatient))
    /\ trail[1].val.guardian = Str(cpNurse)
    /\ trail[3] = trail[1]

\* the record's type key is missing, or its value resolves to no class
TypeUnresolved(r) ==
    \/ "type" \notin DOMAIN r
    \/ ~IsStr(r.type)
    \/ Lower(r.type.v) \notin DOMAIN registry

\* C6: from_dict of a record whose type is missing or resolves to no class
\* fails with the ValueError of an unknown patient type, and with no other
\* failure.
C6_UnknownTypeIsValueError ==
    (Len(trail) >= 2 /\ trail[1].kind = "dict" /\ TypeUnresolved(trail[1].val))
        => /\ trail[2].kind = "raised"
           /\ trail[2].val.exc = "ValueError"

----------------------------------------------------------------------------
(* The factory *)

\* the positional arguments of the calls in main()
FactoryArgs ==
    {<<Str(cpA1), Str(cpIvan), PyInt(35), Str(cpM), Str(cpCold)>>,
     <<Str(cpA1), Str(cpIvan), PyInt(200), Str(cpM), Str(cpCold), Str(cpNurse)>>}

FactoryKwargs ==
    {NoKwargs} \cup
    {[k \in {n} |-> Str(cpNurse)] :
        n \in {"occupation", "guardian", "chronic_conditions"}}

NoCall == [op |-> "none"]

\* the arguments of the calls to come
InitFactory ==
    /\ RegistryBuilt
    /\ made \in {[op |-> "none", args |-> a, kwargs |-> k] :
                    a \in FactoryArgs, k \in FactoryKwargs}
    /\ CodecIdle /\ SetterIdle /\ OrderIdle /\ BillingIdle /\ ChainIdle
    /\ ClinicIdle

\* PatientFactory.create_patient(tag, *args, **kwargs); the call before it
\* is kept beside it
CreatePatient ==
    /\ \E tag \in KnownTags \cup UnknownTags :
           made' = [op |-> "create_patient", tag |-> tag, args |-> made.args,
                    kwargs |-> made.kwargs,
                    result |-> create_patient(registry, Str(tag), made.args,
                                              made.kwargs),
                    prev |-> IF made.op = "none" THEN NoCall
                             ELSE [op |-> made.op, tag |-> made.tag,
                                   result |-> made.result]]
    /\ UNCHANGED <<registry, trail, patient, edit, pair, verdict, services,
                   billing, successor, diagnosis, request>>
    /\ UNCHANGED <<patients, directory>>

FactoryNext == CreatePatient

SpecFactory == InitFactory /\ [][FactoryNext]_vars

\* two tags that differ in the case of their letters only
SameUpToCase(a, b) ==
    /\ Len(a) = Len(b)
    /\ \A i \in 1..Len(a) :
           a[i] = b[i] \/ UpperChar(a[i]) = b[i] \/ a[i] = UpperChar(b[i])

\* the classes that are registered, whatever their tags
RegisteredClasses == {registry[k] : k \in DOMAIN registry}

\* C7: create_patient resolves every casing of a tag to the same variant
\* (two calls that differ in the casing of the tag only make equal patients
\* or fail with the same exception); a tag
\* that is a casing of no registered class name raises ValueError with a
\* message that ends with the tag as passed, and makes no patient; a tag
\* that resolves makes a patient of the class so named or fails on the
\* arguments, never on the tag.
C7_FactoryLookup ==
    made.op = "create_patient" =>
        /\ (/\ made.prev.op = "create_patient"
            /\ SameUpToCase(made.prev.tag, made.tag))
               => /\ made.prev.result.ok = made.result.ok
                  /\ made.result.ok => made.prev.result = made.result
                  /\ ~made.result.ok
                         => made.prev.result.exc = made.result.exc
        /\ (\A c \in RegisteredClasses : ~SameUpToCase(c.name, made.tag))
               => /\ ~made.result.ok
                  /\ made.result.exc = "ValueError"
                  /\ IsStr(made.result.msg)
                  /\ LET m == made.result.msg.v
                     IN  /\ Len(m) >= Len(made.tag)
                         /\ SubSeq(m, Len(m) - Len(made.tag) + 1, Len(m))
                                = made.tag
        /\ \A c \in RegisteredClasses :
               SameUpToCase(c.name, made.tag)
                   => IF made.result.ok THEN made.result.val.cls = c
                      ELSE made.result.exc = "TypeError"

\* "ADULTPATIENT" after "adultpatient" made the same adult patient
C7_Witness ==
    /\ made.op = "create_patient"
    /\ made.prev.op = "create_patient"
    /\ made.tag = Casing(cpAdultPatient, Len(cpAdultPatient))
    /\ made.prev.tag = Lower(cpAdultPatient)
    /\ made.result.ok
    /\ made.result.val.cls = Class(cpAdultPatient)
    /\ made.prev.result = made.result

\* C8: the tags that resolve are exactly adultpatient, childpatient and
\* seniorpatient, each to its own class, no operation changes the registry,
\* and every patient the factory makes is of one of the three variants.
C8_RegistryIsThreeVariants ==
    /\ DOMAIN registry = {Lower(c.name) : c \in ThreeVariants}
    /\ \A c \in ThreeVariants : registry[Lower(c.name)] = c
    /\ (made.op = "create_patient" /\ made.result.ok)
           => made.result.val.cls \in ThreeVariants

\* once built, the registry is never written
RegistryFrozen == [][registry' = registry]_vars

----------------------------------------------------------------------------
(* The setters of a patient *)

\* the bounds of the age setter: 1 < age < 110
AgeAbove == 1
AgeBelow == 110

\* how far around the two bounds the ages tried reach
AgeMargin == 2

AgeInputs ==
    (AgeAbove - AgeMargin)..(AgeAbove + AgeMargin)
    \cup (AgeBelow - AgeMargin)..(AgeBelow + AgeMargin)
    \cup {35, 200}

\* Patient.age setter with both bounds accepted
age_setter_inclusive(p, age) ==
    IF ~IsInt(age) THEN Raise("TypeError", None)
    ELSE IF AgeAbove <= age.v /\ age.v <= AgeBelow
         THEN Return([p EXCEPT !.age = age])
         ELSE Return(p)

\* Patient.age setter: `1 < age` raises TypeError unless age is a number;
\* the object after the call is returned
age_setter(p, age) ==
    IF ~IsInt(age) THEN Raise("TypeError", None)
    ELSE IF AgeAbove < age.v /\ age.v < AgeBelow
         THEN Return([p EXCEPT !.age = age])
         ELSE Return(p)

\* Patient.gender setter
gender_setter(p, gender) ==
    IF gender = Str(cpM) \/ gender = Str(cpZh)
    THEN Return([p EXCEPT !.gender = gender])
    ELSE Return(p)

\* Patient.patient_id setter: any value is stored
patient_id_setter(p, patient_id) ==
    Return([p EXCEPT !.patient_id = patient_id])

\* Patient.name setter: any value is stored
name_setter(p, name) == Return([p EXCEPT !.name = name])

\* AdultPatient.occupation setter
occupation_setter(p, occupation) ==
    Return([p EXCEPT !.occupation = occupation])

\* ChildPatient.guardian setter
guardian_setter(p, guardian) == Return([p EXCEPT !.guardian = guardian])

\* SeniorPatient.chronic_conditions setter
chronic_conditions_setter(p, chronic_conditions) ==
    Return([p EXCEPT !.chronic_conditions = chronic_conditions])

\* the values given to the setters that check nothing
IdValues == {Str(cpA1), Str(cpB2)}
NameValues == {Str(cpIvan), None}
OwnValues == {Str(cpNurse), Str(<<>>)}

\* a patient of any class as its constructor makes it: no age is checked
InitSetter ==
    /\ RegistryBuilt
    /\ \E c \in PatientClasses, a \in AgeInputs, g \in {Str(cpM), Str(cpNurse)} :
           LET r == Call(c, <<Str(cpA1), Str(cpIvan), PyInt(a), g, Str(cpCold)>>,
                         [k \in ExtraKey(c) |-> Str(cpNurse)])
           IN  /\ patient = r.val
               /\ edit = [op |-> "new", born |-> r.val]
    /\ CodecIdle /\ FactoryIdle /\ OrderIdle /\ BillingIdle /\ ChainIdle
    /\ ClinicIdle

\* patient.age = age
SetAge ==
    /\ \E age \in {PyInt(a) : a \in AgeInputs} \cup {None} :
           LET r == age_setter(patient, age)
           IN  /\ patient' = IF r.ok THEN r.val ELSE patient
               /\ edit' = [op |-> "age", arg |-> age, before |-> patient,
                           raised |-> ~r.ok, born |-> edit.born]
    /\ UNCHANGED <<registry, trail, made, pair, verdict, services, billing,
                   successor, diagnosis, request>>
    /\ UNCHANGED <<patients, directory>>

\* patient.gender = gender
SetGender ==
    /\ \E gender \in {Str(cpM), Str(cpZh), Str(cpNurse), None} :
           LET r == gender_setter(patient, gender)
           IN  /\ patient' = r.val
               /\ edit' = [op |-> "gender", arg |-> gender,
                           before |-> patient, raised |-> ~r.ok,
                           born |-> edit.born]
    /\ UNCHANGED <<registry, trail, made, pair, verdict, services, billing,
                   successor, diagnosis, request>>
    /\ UNCHANGED <<patients, directory>>

\* patient.patient_id = patient_id
SetPatientId ==
    /\ \E patient_id \in IdValues :
           LET r == patient_id_setter(patient, patient_id)
           IN  /\ patient' = r.val
               /\ edit' = [op |-> "patient_id", arg |-> patient_id,
                           before |-> patient, raised |-> ~r.ok,
                           born |-> edit.born]
    /\ UNCHANGED <<registry, trail, made, pair, verdict, services, billing,
                   successor, diagnosis, request>>
    /\ UNCHANGED <<patients, directory>>

\* patient.name = name
SetName ==
    /\ \E name \in NameValues :
           LET r == name_setter(patient, name)
           IN  /\ patient' = r.val
               /\ edit' = [op |-> "name", arg |-> name, before |-> patient,
                           raised |-> ~r.ok, born |-> edit.born]
    /\ UNCHANGED <<registry, trail, made, pair, verdict, services, billing,
                   successor, diagnosis, request>>
    /\ UNCHANGED <<patients, directory>>

\* adult_patient.occupation = occupation
SetOccupation ==
    /\ patient.cls = Class(cpAdultPatient)
    /\ \E occupation \in OwnValues :
           LET r == occupation_setter(patient, occupation)
           IN  /\ patient' = r.val
               /\ edit' = [op |-> "occupation", arg |-> occupation,
                           before |-> patient, raised |-> ~r.ok,
                           born |-> edit.born]
    /\ UNCHANGED <<registry, trail, made, pair, verdict, services, billing,
                   successor, diagnosis, request>>
    /\ UNCHANGED <<patients, directory>>

\* child_patient.guardian = guardian
SetGuardian ==
    /\ patient.cls = Class(cpChildPatient)
    /\ \E guardian \in OwnValues :
           LET r == guardian_setter(patient, guardian)
           IN  /\ patient' = r.val
               /\ edit' = [op |-> "guardian", arg |-> guardian,
                           before |-> patient, raised |-> ~r.ok,
                           born |-> edit.born]
    /\ UNCHANGED <<registry, trail, made, pair, verdict, services, billing,
                   successor, diagnosis, request>>
    /\ UNCHANGED <<patients, directory>>

\* senior_patient.chronic_conditions = chronic_conditions
SetChronicConditions ==
    /\ patient.cls = Class(cpSeniorPatient)
    /\ \E chronic_conditions \in OwnValues :
           LET r == chronic_conditions_setter(patient, chronic_conditions)
           IN  /\ patient' = r.val
               /\ edit' = [op |-> "chronic_conditions",
                           arg |-> chronic_conditions, before |-> patient,
                           raised |-> ~r.ok, born |-> edit.born]
    /\ UNCHANGED <<registry, trail, made, pair, verdict, services, billing,
                   successor, diagnosis, request>>
    /\ UNCHANGED <<patients, directory>>

SetterNext ==
    \/ SetAge \/ SetGender \/ SetPatientId \/ SetName
    \/ SetOccupation \/ SetGuardian \/ SetChronicConditions

SpecSetter == InitSetter /\ [][SetterNext]_vars

\* C3: patient.age = a with an integer a never raises; afterwards the age
\* is a if 2 <= a <= 109 and the age before the call otherwise, and no
\* other field has changed; so a patient made with an age in 2..109 has an
\* age in 2..109 after any setter calls.
C3_AgeSetter ==
    /\ (edit.op = "age" /\ IsInt(edit.arg))
           => /\ ~edit.raised
              /\ patient.age = IF 2 <= edit.arg.v /\ edit.arg.v <= 109
                               THEN edit.arg ELSE edit.before.age
              /\ [patient EXCEPT !.age = edit.before.age] = edit.before
    /\ (IsInt(edit.born.age) /\ edit.born.age.v \in 2..109)
           => IsInt(patient.age) /\ patient.age.v \in 2..109

\* 110 was refused after 109 had been accepted
C3_Witness ==
    /\ edit.op = "age"
    /\ edit.arg = PyInt(110)
    /\ edit.before.age = PyInt(109)
    /\ patient.age = PyInt(109)
    /\ edit.born.age = PyInt(2)

----------------------------------------------------------------------------
(* The ordering of patients *)

\* Patient.__lt__
py_lt(a, b) ==
    IF a.age.v < b.age.v THEN TRUE
    ELSE IF a.age.v = b.age.v
         THEN Len(a.medical_history.v) < Len(b.medical_history.v)
         ELSE FALSE

\* Patient.__gt__ that looks at the ages only
py_gt_by_age(a, b) == a.age.v > b.age.v

\* Patient.__gt__
py_gt(a, b) ==
    IF a.age.v > b.age.v THEN TRUE
    ELSE IF a.age.v = b.age.v
         THEN Len(a.medical_history.v) > Len(b.medical_history.v)
         ELSE FALSE

\* Patient.__eq__
py_eq(a, b) ==
    /\ a.age.v = b.age.v
    /\ Len(a.medical_history.v) = Len(b.medical_history.v)

\* patients of several classes, ids and names, with integer ages and text
\* histories: two histories of one length among them
OrderedPatients ==
    {r.val : r \in
        {Call(Class(cpAdultPatient),
              <<Str(cpA1), Str(cpIvan), PyInt(a), Str(cpM), Str(h),
                Str(cpNurse)>>, NoKwargs) :
            a \in {35, 36}, h \in {<<>>, cpFlu, cpCold}}
        \cup
        {Call(Class(cpChildPatient),
              <<Str(cpFlu), Str(cpNurse), PyInt(a), Str(cpZh), Str(h),
                Str(cpIvan)>>, NoKwargs) :
            a \in {8, 35}, h \in {<<>>, cpA1, cpIvan}}}

\* three patients to compare
InitOrder ==
    /\ RegistryBuilt
    /\ pair \in [1..3 -> OrderedPatients]
    /\ verdict = Idle
    /\ CodecIdle /\ FactoryIdle /\ SetterIdle /\ BillingIdle /\ ChainIdle
    /\ ClinicIdle

\* a < b, a > b and a == b of every two of them
Compare ==
    /\ verdict = Idle
    /\ verdict' = [op |-> "compare",
                   lt |-> [i \in 1..3 |-> [j \in 1..3 |-> py_lt(pair[i], pair[j])]],
                   gt |-> [i \in 1..3 |-> [j \in 1..3 |-> py_gt(pair[i], pair[j])]],
                   eq |-> [i \in 1..3 |-> [j \in 1..3 |-> py_eq(pair[i], pair[j])]]]
    /\ UNCHANGED <<registry, trail, made, patient, edit, pair, services,
                   billing, successor, diagnosis, request>>
    /\ UNCHANGED <<patients, directory>>

OrderNext == Compare

SpecOrder == InitOrder /\ [][OrderNext]_vars

Age(p) == p.age.v
HistoryLen(p) == Len(p.medical_history.v)

\* C9: a < b iff a is younger, or as old with a shorter history; a > b iff
\* b < a; a == b iff the ages and the history lengths are equal, whatever
\* the other fields; exactly one of <, ==, > holds of every two patients,
\* and < is transitive.
C9_Ordering ==
    verdict.op = "compare" =>
        \A i, j \in 1..3 :
            LET a == pair[i]
                b == pair[j]
                lt == verdict.lt[i][j]
                gt == verdict.gt[i][j]
                eq == verdict.eq[i][j]
            IN  /\ lt <=> \/ Age(a) < Age(b)
                          \/ Age(a) = Age(b) /\ HistoryLen(a) < HistoryLen(b)
                /\ gt <=> verdict.lt[j][i]
                /\ eq <=> (Age(a) = Age(b) /\ HistoryLen(a) = HistoryLen(b))
                /\ Cardinality({x \in {"lt", "eq", "gt"} :
                        \/ x = "lt" /\ lt
                        \/ x = "eq" /\ eq
                        \/ x = "gt" /\ gt}) = 1
                /\ \A k \in 1..3 :
                       (lt /\ verdict.lt[j][k]) => verdict.lt[i][k]

\* an adult and a child of one age with different histories of one length
\* compared equal, and a third patient of their age with a shorter history
\* was less than both
C9_Witness ==
    /\ verdict.op = "compare"
    /\ pair[1].cls # pair[2].cls
    /\ pair[1].name # pair[2].name
    /\ pair[1].medical_history # pair[2].medical_history
    /\ verdict.eq[1][2]
    /\ ~verdict.lt[1][2] /\ ~verdict.gt[1][2]
    /\ verdict.lt[3][1] /\ verdict.gt[2][3]
    /\ Age(pair[3]) = Age(pair[1])

----------------------------------------------------------------------------
(* The services of an appointment *)

\* Service objects: Service defines no __eq__, so two are equal only when
\* they are one object; "x1" and "x2" carry the same name and price
ServiceObjects == {"x1", "x2", "y"}

ServicePrice == [s \in ServiceObjects |-> IF s = "y" THEN 25 ELSE 10]

\* how many services an appointment is given
MaxServices == 4

\* Appointment.add_service
add_service(list, service) == Append(list, service)

\* list.remove(x): the first item equal to x goes
RECURSIVE ListRemove(_, _)
ListRemove(list, x) ==
    IF list = <<>> THEN <<>>
    ELSE IF Head(list) = x THEN Tail(list)
    ELSE <<Head(list)>> \o ListRemove(Tail(list), x)

\* Appointment.remove_service that drops every matching entry
remove_service_all(list, service) == SelectSeq(list, LAMBDA s : s # service)

\* Appointment.remove_service: a service not in the list is reported on the
\* console and the list is left alone
remove_service(list, service) ==
    IF service \in Range(list) THEN ListRemove(list, service) ELSE list

\* Appointment.calculate_total
RECURSIVE TotalFrom(_, _, _)
TotalFrom(list, i, total) ==
    IF i > Len(list) THEN total
    ELSE TotalFrom(list, i + 1, total + ServicePrice[list[i]])

calculate_total(list) == TotalFrom(list, 1, 0)

\* a new appointment has no services
InitBilling ==
    /\ RegistryBuilt
    /\ services = <<>>
    /\ billing = Idle
    /\ CodecIdle /\ FactoryIdle /\ SetterIdle /\ OrderIdle /\ ChainIdle
    /\ ClinicIdle

AddService ==
    /\ Len(services) < MaxServices
    /\ \E s \in ServiceObjects :
           /\ services' = add_service(services, s)
           /\ billing' = [op |-> "add_service", arg |-> s, before |-> services]
    /\ UNCHANGED <<registry, trail, made, patient, edit, pair, verdict,
                   successor, diagnosis, request>>
    /\ UNCHANGED <<patients, directory>>

RemoveService ==
    /\ \E s \in ServiceObjects :
           /\ services' = remove_service(services, s)
           /\ billing' = [op |-> "remove_service", arg |-> s,
                          before |-> services]
    /\ UNCHANGED <<registry, trail, made, patient, edit, pair, verdict,
                   successor, diagnosis, request>>
    /\ UNCHANGED <<patients, directory>>

CalculateTotal ==
    /\ billing' = [op |-> "calculate_total", arg |-> "",
                   before |-> services,
                   total |-> calculate_total(services)]
    /\ UNCHANGED <<registry, trail, made, patient, edit, pair, verdict,
                   services, successor, diagnosis, request>>
    /\ UNCHANGED <<patients, directory>>

BillingNext == AddService \/ RemoveService \/ CalculateTotal

SpecBilling == InitBilling /\ [][BillingNext]_vars

\* how many times a service is in the list
Copies(list, s) == Cardinality({i \in DOMAIN list : list[i] = s})

\* the list without its entry at i
Without(list, i) == SubSeq(list, 1, i - 1) \o SubSeq(list, i + 1, Len(list))

RECURSIVE SumOver(_)
SumOver(set) ==
    IF set = {} THEN 0
    ELSE LET s == CHOOSE x \in set : TRUE
         IN  ServicePrice[s] * Copies(services, s) + SumOver(set \ {s})

\* C10: calculate_total() is the sum of the prices of the services in the
\* list, each counted as often as it is listed; add_service appends at the
\* end; remove_service takes out the first matching entry only and keeps
\* the order of the rest; removing a service that is not listed changes
\* nothing.
C10_TotalAndServices ==
    /\ billing.op = "calculate_total"
           => billing.total = SumOver(ServiceObjects)
    /\ billing.op = "add_service"
           => services = billing.before \o <<billing.arg>>
    /\ billing.op = "remove_service"
           => IF \E i \in DOMAIN billing.before : billing.before[i] = billing.arg
              THEN \E i \in DOMAIN billing.before :
                       /\ billing.before[i] = billing.arg
                       /\ \A j \in 1..(i - 1) : billing.before[j] # billing.arg
                       /\ services = Without(billing.before, i)
              ELSE services = billing.before

\* a service listed twice was removed once: its second entry is still there
C10_Witness ==
    /\ billing.op = "remove_service"
    /\ billing.arg = "x1"
    /\ billing.before = <<"y", "x1", "x2", "x1">>
    /\ services = <<"y", "x2", "x1">>
    /\ calculate_total(services) = 45

----------------------------------------------------------------------------
(* The chain of handlers and the permission gate *)

\* "незначительное изменение"
cpMinorMarker ==
    <<1085, 1077, 1079, 1085, 1072, 1095, 1080, 1090, 1077, 1083, 1100,
    1085, 1086, 1077, 32, 1080, 1079, 1084, 1077, 1085, 1077, 1085, 1080,
    1077>>

\* "пересмотр лечения"
cpRevisionMarker ==
    <<1087, 1077, 1088, 1077, 1089, 1084, 1086, 1090, 1088, 32, 1083,
    1077, 1095, 1077, 1085, 1080, 1103>>

\* "Незначительное изменение"
cpMinorChange ==
    <<1053, 1077, 1079, 1085, 1072, 1095, 1080, 1090, 1077, 1083, 1100,
    1085, 1086, 1077, 32, 1080, 1079, 1084, 1077, 1085, 1077, 1085, 1080,
    1077>>

\* "Пересмотр лечения"
cpRevision ==
    <<1055, 1077, 1088, 1077, 1089, 1084, 1086, 1090, 1088, 32, 1083,
    1077, 1095, 1077, 1085, 1080, 1103>>

\* "Серьезное изменение"
cpSerious ==
    <<1057, 1077, 1088, 1100, 1077, 1079, 1085, 1086, 1077, 32, 1080,
    1079, 1084, 1077, 1085, 1077, 1085, 1080, 1077>>

\* "СРОЧНО: ПЕРЕСМОТР ЛЕЧЕНИЯ!"
cpRevisionUpper ==
    <<1057, 1056, 1054, 1063, 1053, 1054, 58, 32, 1055, 1045, 1056, 1045,
      1057, 1052, 1054, 1058, 1056, 32, 1051, 1045, 1063, 1045, 1053, 1048,
      1071, 33>>

\* "Незначительное изменение, пересмотр лечения"
cpMinorAndRevision ==
    <<1053, 1077, 1079, 1085, 1072, 1095, 1080, 1090, 1077, 1083, 1100,
    1085, 1086, 1077, 32, 1080, 1079, 1084, 1077, 1085, 1077, 1085, 1080,
    1077, 44, 32, 1087, 1077, 1088, 1077, 1089, 1084, 1086, 1090, 1088,
    32, 1083, 1077, 1095, 1077, 1085, 1080, 1103>>

\* "Грипп"
cpGripp ==
    <<1043, 1088, 1080, 1087, 1087>>

\* the handlers main() builds, each by its class
Handlers == {"doctor", "department_head", "chief_physician"}

HandlerClass ==
    [h \in Handlers |->
        CASE h = "doctor" -> "Doctor"
          [] h = "department_head" -> "DepartmentHead"
          [] OTHER -> "ChiefPhysician"]

\* _successor is None
NoHandler == "None"

\* the roles check_permissions is given for change_diagnosis
RequiredRoles == {"Doctor", "Department_head", "Chief_physician"}

RoleInputs == RequiredRoles \cup {"user", "doctor"}

TextInputs ==
    {cpMinorChange, cpRevision, cpRevisionUpper, cpSerious,
     cpMinorAndRevision}

\* the frames the interpreter allows a chain of calls (1000 by default),
\* scaled to the handlers there are: a traversal this deep is in a cycle
RecursionLimit == 4

\* `"незначительное изменение" in new_diagnosis.lower()` and
\* `"пересмотр лечения" in new_diagnosis.lower()`, evaluated once for each
\* of the texts tried
HoldsMinorMarker ==
    [text \in TextInputs |-> Contains(Lower(text), cpMinorMarker)]

HoldsRevisionMarker ==
    [text \in TextInputs |-> Contains(Lower(text), cpRevisionMarker)]

\* the test of Doctor.handle_request made with the department's marker
ApprovesByRevisionOnly(h, text) ==
    CASE HandlerClass[h] = "Doctor" -> HoldsRevisionMarker[text]
      [] HandlerClass[h] = "DepartmentHead" -> HoldsRevisionMarker[text]
      [] OTHER -> TRUE

\* the first test of each class's handle_request
Approves(h, text) ==
    CASE HandlerClass[h] = "Doctor" -> HoldsMinorMarker[text]
      [] HandlerClass[h] = "DepartmentHead" -> HoldsRevisionMarker[text]
      [] OTHER -> TRUE

\* handle_request of a handler that never passes a request on
handle_request_alone(succ, h, text, depth) ==
    IF Approves(h, text)
    THEN [visits |-> <<h>>, approver |-> h, writes |-> 1, raised |-> ""]
    ELSE [visits |-> <<h>>, approver |-> NoHandler, writes |-> 0,
          raised |-> ""]

\* X.handle_request(appointment, new_diagnosis) at depth `depth` of the
\* call stack: the handlers invoked in order, who approved, how many times
\* appointment.diagnosis was assigned, and how the call ended
RECURSIVE handle_request(_, _, _, _)
handle_request(succ, h, text, depth) ==
    IF depth > RecursionLimit
    THEN [visits |-> <<>>, approver |-> NoHandler, writes |-> 0,
          raised |-> "RecursionError"]
    ELSE IF Approves(h, text)
    THEN [visits |-> <<h>>, approver |-> h, writes |-> 1, raised |-> ""]
    ELSE IF succ[h] # NoHandler
    THEN LET rest == handle_request(succ, succ[h], text, depth + 1)
         IN  [rest EXCEPT !.visits = <<h>> \o @]
    ELSE [visits |-> <<h>>, approver |-> NoHandler, writes |-> 0,
          raised |-> ""]

\* change_diagnosis under check_permissions
change_diagnosis(succ, user_role, text, handler) ==
    IF user_role \notin RequiredRoles
    THEN [visits |-> <<>>, approver |-> NoHandler, writes |-> 0,
          raised |-> "PermissionDeniedError"]
    ELSE handle_request(succ, handler, text, 1)

\* Appointment.diagnosis setter: any value is stored
diagnosis_setter(old, new_diagnosis) == new_diagnosis

\* AppointmentWithLogging.update_diagnosis: the setter, and a line in the log
update_diagnosis(old, new_diagnosis) == diagnosis_setter(old, new_diagnosis)

\* "X"
cpX == <<88>>

\* the texts assigned to the diagnosis directly
DiagnosisInputs == {cpGripp, cpSerious, cpX}

\* the handlers as constructed, and the appointment main() makes
InitChain ==
    /\ RegistryBuilt
    /\ successor = [h \in Handlers |-> NoHandler]
    /\ diagnosis = cpGripp
    /\ request = Idle
    /\ CodecIdle /\ FactoryIdle /\ SetterIdle /\ OrderIdle /\ BillingIdle
    /\ ClinicIdle

\* h.set_successor(s); `request` always tells of the last call
SetSuccessor ==
    /\ \E h \in Handlers, s \in Handlers \cup {NoHandler} :
           /\ successor' = [successor EXCEPT ![h] = s]
           /\ request' = [op |-> "set_successor", head |-> h, arg |-> s]
    /\ UNCHANGED <<registry, trail, made, patient, edit, pair, verdict,
                   services, billing, diagnosis>>
    /\ UNCHANGED <<patients, directory>>

\* change_diagnosis(user_role, appointment, new_diagnosis, handler)
ChangeDiagnosis ==
    /\ \E role \in RoleInputs, text \in TextInputs, head \in Handlers :
           LET r == change_diagnosis(successor, role, text, head)
           IN  /\ diagnosis' = IF r.writes > 0 THEN text ELSE diagnosis
               /\ request' = [op |-> "change_diagnosis", role |-> role,
                              text |-> text, head |-> head,
                              before |-> diagnosis, visits |-> r.visits,
                              approver |-> r.approver,
                              writes |-> r.writes, raised |-> r.raised]
    /\ UNCHANGED <<registry, trail, made, patient, edit, pair, verdict,
                   services, billing, successor>>
    /\ UNCHANGED <<patients, directory>>

\* handler.handle_request(appointment, new_diagnosis), called directly
HandleRequest ==
    /\ \E text \in TextInputs, head \in Handlers :
           LET r == handle_request(successor, head, text, 1)
           IN  /\ diagnosis' = IF r.writes > 0 THEN text ELSE diagnosis
               /\ request' = [op |-> "handle_request", role |-> "",
                              text |-> text, head |-> head,
                              before |-> diagnosis, visits |-> r.visits,
                              approver |-> r.approver,
                              writes |-> r.writes, raised |-> r.raised]
    /\ UNCHANGED <<registry, trail, made, patient, edit, pair, verdict,
                   services, billing, successor>>
    /\ UNCHANGED <<patients, directory>>

\* appointment.diagnosis = new_diagnosis, by any caller
SetDiagnosis ==
    /\ \E text \in DiagnosisInputs :
           /\ diagnosis' = diagnosis_setter(diagnosis, text)
           /\ request' = [op |-> "diagnosis", text |-> text,
                          before |-> diagnosis]
    /\ UNCHANGED <<registry, trail, made, patient, edit, pair, verdict,
                   services, billing, successor>>
    /\ UNCHANGED <<patients, directory>>

\* appointment.update_diagnosis(new_diagnosis)
UpdateDiagnosis ==
    /\ \E text \in DiagnosisInputs :
           /\ diagnosis' = update_diagnosis(diagnosis, text)
           /\ request' = [op |-> "update_diagnosis", text |-> text,
                          before |-> diagnosis]
    /\ UNCHANGED <<registry, trail, made, patient, edit, pair, verdict,
                   services, billing, successor>>
    /\ UNCHANGED <<patients, directory>>

ChainNext ==
    \/ SetSuccessor \/ ChangeDiagnosis \/ HandleRequest
    \/ SetDiagnosis \/ UpdateDiagnosis

SpecChain == InitChain /\ [][ChainNext]_vars

\* the last call was change_diagnosis
Gated == request.op = "change_diagnosis"

\* how often a handler's handle_request was invoked in the last call
Invocations(h) ==
    Cardinality({i \in DOMAIN request.visits : request.visits[i] = h})

\* C1: change_diagnosis with a role that is not one of the three fails with
\* PermissionDeniedError, no handler's handle_request is invoked and the
\* diagnosis is as before; with one of the three roles the head's
\* handle_request is invoked exactly once.
C1_PermissionGate ==
    Gated =>
        IF request.role \notin {"Doctor", "Department_head", "Chief_physician"}
        THEN /\ request.raised = "PermissionDeniedError"
             /\ request.visits = <<>>
             /\ diagnosis = request.before
        ELSE /\ request.raised # "PermissionDeniedError"
             /\ Invocations(request.head) = 1

\* the last call went to the doctor while the department head was the
\* doctor's successor, with a text that holds the department's marker
ToDoctorThenHead ==
    /\ request.op \in {"change_diagnosis", "handle_request"}
    /\ request.raised # "PermissionDeniedError"
    /\ request.head = "doctor"
    /\ successor["doctor"] = "department_head"
    /\ HoldsRevisionMarker[request.text]

\* C2 as stated: every text that holds the department's marker, sent to the
\* doctor whose successor is the department head, is approved by the
\* department head and not by the doctor, and becomes the diagnosis.
C2_RevisionGoesToHead ==
    ToDoctorThenHead =>
        /\ request.approver = "department_head"
        /\ diagnosis = request.text

\* C2, amended: every text that holds the department's marker and not the
\* doctor's own marker, sent to the doctor whose successor is the
\* department head, is approved by the department head and not by the
\* doctor, and becomes the diagnosis; a text that holds both markers is
\* approved by the doctor, and becomes the diagnosis as well.
C2_RevisionWithoutMinorGoesToHead ==
    ToDoctorThenHead =>
        /\ diagnosis = request.text
        /\ request.approver =
               IF HoldsMinorMarker[request.text]
               THEN "doctor" ELSE "department_head"
        /\ request.visits =
               IF HoldsMinorMarker[request.text]
               THEN <<"doctor">> ELSE <<"doctor", "department_head">>

\* "Пересмотр лечения" went past the doctor to the department head and
\* replaced another diagnosis
C2_Witness ==
    /\ ToDoctorThenHead
    /\ request.text = cpRevision
    /\ request.visits = <<"doctor", "department_head">>
    /\ request.approver = "department_head"
    /\ request.before # cpRevision
    /\ diagnosis = cpRevision

\* the handlers from h on along the successor links, up to the first one
\* that was passed already
RECURSIVE ChainFrom(_, _)
ChainFrom(h, passed) ==
    IF h = NoHandler \/ h \in passed THEN <<>>
    ELSE <<h>> \o ChainFrom(successor[h], passed \cup {h})

\* the links from h on end in a handler without a successor
AcyclicFrom(h) == successor[Last(ChainFrom(h, {}))] = NoHandler

\* the rule of each level
RuleMatches(h, text) ==
    \/ h = "doctor" /\ HoldsMinorMarker[text]
    \/ h = "department_head" /\ HoldsRevisionMarker[text]
    \/ h = "chief_physician"

\* the last call reached the chain, and the links from its head on are
\* acyclic
OnAcyclicChain ==
    /\ request.op \in {"change_diagnosis", "handle_request"}
    /\ request.raised # "PermissionDeniedError"
    /\ AcyclicFrom(request.head)

\* C13: on an acyclic chain the diagnosis is overwritten with the text iff
\* some handler on the path from the head has a matching rule; the first
\* such handler approves, the diagnosis is written exactly once and no
\* handler behind the approver is invoked; when no rule matches every
\* handler of the path is invoked, nothing is written and the diagnosis is
\* as before.  A chain that ends in the chief physician approves every
\* request, called directly or under any of the three roles.
C13_ChainOutcome ==
    OnAcyclicChain =>
        LET path == ChainFrom(request.head, {})
            matching == {i \in DOMAIN path : RuleMatches(path[i], request.text)}
        IN  /\ request.raised = ""
            /\ IF matching = {}
               THEN /\ request.approver = NoHandler
                    /\ request.writes = 0
                    /\ request.visits = path
                    /\ diagnosis = request.before
               ELSE LET first == CHOOSE i \in matching :
                                     \A j \in matching : i <= j
                    IN  /\ request.approver = path[first]
                        /\ request.writes = 1
                        /\ request.visits = SubSeq(path, 1, first)
                        /\ diagnosis = request.text
            /\ Last(path) = "chief_physician" =>
                   /\ request.approver # NoHandler
                   /\ diagnosis = request.text

\* a text with neither marker, sent by a Doctor to the doctor of the chain
\* doctor -> department head -> chief physician, went past both and was
\* approved by the chief physician, replacing another diagnosis
C13_Witness ==
    /\ OnAcyclicChain
    /\ request.op = "change_diagnosis"
    /\ request.role = "Doctor"
    /\ request.head = "doctor"
    /\ ChainFrom("doctor", {}) =
           <<"doctor", "department_head", "chief_physician">>
    /\ request.text = cpSerious
    /\ request.visits = <<"doctor", "department_head", "chief_physician">>
    /\ request.approver = "chief_physician"
    /\ request.writes = 1
    /\ request.before # cpSerious
    /\ diagnosis = cpSerious

\* C15: whatever set_successor calls were made, the successor links are
\* acyclic, and handle_request started at any handler ends in an approval
\* or a rejection having invoked each handler at most once.
C15_TraversalTerminates ==
    /\ \A h \in Handlers : AcyclicFrom(h)
    /\ request.op \in {"change_diagnosis", "handle_request"} =>
           /\ request.raised # "RecursionError"
           /\ \A h \in Handlers : Invocations(h) <= 1


----------------------------------------------------------------------------
(* The clinic's list of patients *)

cpC3 == <<67, 51>>                 \* "C3"
cpUnknownId == <<85, 78, 75, 78, 79, 87, 78, 95, 73, 68>>   \* "UNKNOWN_ID"

\* "Некорректный объект пациента."
cpInvalidPatient ==
    <<1053, 1077, 1082, 1086, 1088, 1088, 1077, 1082, 1090, 1085, 1099, 1081,
      32, 1086, 1073, 1098, 1077, 1082, 1090, 32, 1087, 1072, 1094, 1080,
      1077, 1085, 1090, 1072, 46>>

\* "Пациент не найден."
cpNotFound ==
    <<1055, 1072, 1094, 1080, 1077, 1085, 1090, 32, 1085, 1077, 32, 1085,
      1072, 1081, 1076, 1077, 1085, 46>>

\* The objects handed to a clinic.  A list holds references, and two
\* patients may be == without being one object, so an object goes by a
\* name: "p1" and "p2" differ in class, id, name and history but are of one
\* age and one history length; "p4" carries the id of "p1"; "s", "n" and
\* "d" are a str, None and a dict.
PatientObjects == {"p1", "p2", "p3", "p4"}
OtherObjects == {"s", "n", "d"}
ClinicObjects == PatientObjects \cup OtherObjects

ObjectAt ==
    [o \in ClinicObjects |->
        CASE o = "p1" ->
                 Call(Class(cpAdultPatient),
                      <<Str(cpA1), Str(cpIvan), PyInt(35), Str(cpM),
                        Str(cpCold), Str(cpNurse)>>, NoKwargs).val
          [] o = "p2" ->
                 Call(Class(cpChildPatient),
                      <<Str(cpB2), Str(cpFlu), PyInt(35), Str(cpZh),
                        Str(cpIvan), Str(cpNurse)>>, NoKwargs).val
          [] o = "p3" ->
                 Call(Class(cpSeniorPatient),
                      <<Str(cpC3), Str(cpNurse), PyInt(70), Str(cpM),
                        Str(cpFlu), Str(cpCold)>>, NoKwargs).val
          [] o = "p4" ->
                 Call(Class(cpAdultPatient),
                      <<Str(cpA1), Str(cpCold), PyInt(36), Str(cpZh),
                        Str(cpFlu), Str(cpNurse)>>, NoKwargs).val
          [] o = "s" -> Str(cpA1)
          [] o = "n" -> None
          [] OTHER ->
                 to_dict(Call(Class(cpAdultPatient),
                              <<Str(cpA1), Str(cpIvan), PyInt(35), Str(cpM),
                                Str(cpCold), Str(cpNurse)>>, NoKwargs).val)]

\* the ids asked to be removed
IdInputs == {Str(cpA1), Str(cpB2), Str(cpC3), Str(cpUnknownId)}

\* how many patients a clinic is given
MaxPatients == 3

\* isinstance(x, Patient): the objects of the patient classes carry their
\* class
isinstance_Patient(x) == "cls" \in DOMAIN x

\* Clinic.add_patient that puts the patient in front of the list
add_patient_front(list, o) ==
    IF ~isinstance_Patient(ObjectAt[o])
    THEN [patients |-> list,
          result |-> Raise("InvalidPatientError", Str(cpInvalidPatient))]
    ELSE [patients |-> <<o>> \o list, result |-> Return(None)]

\* Clinic.add_patient
add_patient(list, o) ==
    IF ~isinstance_Patient(ObjectAt[o])
    THEN [patients |-> list,
          result |-> Raise("InvalidPatientError", Str(cpInvalidPatient))]
    ELSE [patients |-> Append(list, o), result |-> Return(None)]

\* list.remove(x) on a list of patients: the first item that is x, or that
\* Patient.__eq__ finds equal to x, goes
RECURSIVE ListRemovePatient(_, _)
ListRemovePatient(list, x) ==
    IF list = <<>> THEN <<>>
    ELSE IF Head(list) = x \/ py_eq(ObjectAt[Head(list)], ObjectAt[x])
         THEN Tail(list)
         ELSE <<Head(list)>> \o ListRemovePatient(Tail(list), x)

\* the loop of Clinic.remove_patient from the i-th patient on
RECURSIVE RemoveFrom(_, _, _)
RemoveFrom(list, i, patient_id) ==
    IF i > Len(list)
    THEN [patients |-> list,
          result |-> Raise("AppointmentNotFoundError", Str(cpNotFound))]
    ELSE IF ObjectAt[list[i]].patient_id = patient_id
         THEN [patients |-> ListRemovePatient(list, list[i]),
               result |-> Return(None)]
         ELSE RemoveFrom(list, i + 1, patient_id)

\* Clinic.remove_patient
remove_patient(list, patient_id) == RemoveFrom(list, 1, patient_id)

\* Clinic(): no patients
InitClinic ==
    /\ RegistryBuilt
    /\ patients = <<>>
    /\ directory = Idle
    /\ CodecIdle /\ FactoryIdle /\ SetterIdle /\ OrderIdle /\ BillingIdle
    /\ ChainIdle

AddPatient ==
    /\ \E o \in ClinicObjects :
           /\ o \in PatientObjects => Len(patients) < MaxPatients
           /\ LET r == add_patient(patients, o)
              IN  /\ patients' = r.patients
                  /\ directory' = [op |-> "add_patient", arg |-> Str(<<>>),
                                   object |-> o, before |-> patients,
                                   result |-> r.result]
    /\ UNCHANGED <<registry, trail, made, patient, edit, pair, verdict,
                   services, billing, successor, diagnosis, request>>

RemovePatient ==
    /\ \E id \in IdInputs :
           LET r == remove_patient(patients, id)
           IN  /\ patients' = r.patients
               /\ directory' = [op |-> "remove_patient", arg |-> id,
                                object |-> "", before |-> patients,
                                result |-> r.result]
    /\ UNCHANGED <<registry, trail, made, patient, edit, pair, verdict,
                   services, billing, successor, diagnosis, request>>

ClinicNext == AddPatient \/ RemovePatient

SpecClinic == InitClinic /\ [][ClinicNext]_vars

\* the ids of the patients of a list, in its order
IdsOf(list) == [i \in DOMAIN list |-> ObjectAt[list[i]].patient_id]

\* C11: after any add_patient and remove_patient calls no two patients of
\* the clinic's list have the same patient_id.
C11_UniqueIds ==
    \A i, j \in DOMAIN patients :
        i # j => IdsOf(patients)[i] # IdsOf(patients)[j]

\* C12: remove_patient(id) with no patient of that id in the list raises
\* AppointmentNotFoundError and leaves the list as it was; add_patient(x)
\* with x not a Patient raises InvalidPatientError and leaves the list as it
\* was; a successful add_patient puts the patient at the end of the list.
C12_TypedFailures ==
    /\ directory.op = "remove_patient" =>
           ((\A i \in DOMAIN directory.before :
                 IdsOf(directory.before)[i] # directory.arg)
            => /\ ~directory.result.ok
               /\ directory.result.exc = "AppointmentNotFoundError"
               /\ directory.result.msg = Str(cpNotFound)
               /\ patients = directory.before)
    /\ directory.op = "add_patient" =>
           IF directory.object \in OtherObjects
           THEN /\ ~directory.result.ok
                /\ directory.result.exc = "InvalidPatientError"
                /\ directory.result.msg = Str(cpInvalidPatient)
                /\ patients = directory.before
           ELSE /\ directory.result.ok
                /\ patients = directory.before \o <<directory.object>>

\* "UNKNOWN_ID" was asked out of a clinic of two patients with other ids
\* and the call raised, the two patients staying
C12_Witness ==
    /\ directory.op = "remove_patient"
    /\ directory.arg = Str(cpUnknownId)
    /\ Len(directory.before) = 2
    /\ ~directory.result.ok
    /\ directory.result.exc = "AppointmentNotFoundError"
    /\ patients = directory.before

\* where the first patient with the id stands in a list
FirstWithId(list, id) ==
    CHOOSE i \in DOMAIN list :
        /\ IdsOf(list)[i] = id
        /\ \A j \in 1..(i - 1) : IdsOf(list)[j] # id

\* C14: whenever remove_patient(id) succeeds, the patient taken out of the
\* list is the first one whose patient_id equals id, and every other
\* patient, one of the same age and history length included, stays in the
\* list in the same relative order.
C14_RemovesTheAddressedPatient ==
    (directory.op = "remove_patient" /\ directory.result.ok) =>
        patients = Without(directory.before,
                           FirstWithId(directory.before, directory.arg))

====
